---- MODULE Spec2Model ----
(***************************************************************************)
(* Model of src/app.js: the effect selector (applyFilter and the slot      *)
(* machine spin) and the clip recorder (startRecording, stopRecording,     *)
(* handleRecordingStop) together with the platform objects they drive:     *)
(* MediaRecorder instances, the 5 s stop timeout, the 80 ms spin interval  *)
(* and the four controls (record, screenshot, random, filter list); the    *)
(* render loop and the screenshot with the drawing state of the 2d         *)
(* context; the pixel arithmetic of the trickster and anima effects.       *)
(* Every handler runs to completion (one JavaScript task = one action).    *)
(***************************************************************************)
EXTENDS Integers, Sequences, FiniteSets, TLC

(***************************************************************************)
(* Bounds of the model.                                                    *)
(***************************************************************************)
\* MediaRecorder objects constructed in one behaviour
MaxSessions == 2
\* dataavailable events an encoder fires before it is stopped
MaxSegments == 1
\* spin intervals that may be active together
MaxSpins == 2
\* canvas.width and canvas.height of the bitmap handed to the anima effect
ImageWidth == 4
ImageHeight == 4

(***************************************************************************)
(* Program constants.                                                      *)
(***************************************************************************)
\* archetypes[i].id, in catalog order
archetypes == <<"self", "persona", "shadow", "anima", "trickster">>

ArchetypeIds == {archetypes[i] : i \in DOMAIN archetypes}

\* the value of a variable that holds no object (Array.prototype.find miss,
\* `let mediaRecorder;`)
Undefined == "undefined"

\* `let loops = 15`
SpinLoops == 15

\* the preference list of startRecording, each entry spelled out
mimeTypes ==
  << <<"v", "i", "d", "e", "o", "/", "m", "p", "4", ";", " ", "c", "o", "d", "e", "c", "s", "=", "\"", "a", "v", "c", "1", ".", "4", "2", "E", "0", "1", "E", "\"">>,
     <<"v", "i", "d", "e", "o", "/", "w", "e", "b", "m", ";", " ", "c", "o", "d", "e", "c", "s", "=", "v", "p", "9">>,
     <<"v", "i", "d", "e", "o", "/", "w", "e", "b", "m", ";", " ", "c", "o", "d", "e", "c", "s", "=", "v", "p", "8">>,
     <<"v", "i", "d", "e", "o", "/", "w", "e", "b", "m">> >>

\* the literal 'video/mp4' tested by handleRecordingStop
VideoMp4Prefix == <<"v", "i", "d", "e", "o", "/", "m", "p", "4">>

VARIABLES
  currentFilter,          \* currentFilter.id, or Undefined
  canvasClassName,        \* canvas.className
  activeButton,           \* the filter button carrying class 'active'
  spins,                  \* the setInterval timers of randomFilterSlotMachine
  isRecording,
  recordedChunks,         \* sequence of blobs
  mediaRecorder,          \* 0 (undefined) or an index into recorders
  recorders,              \* every MediaRecorder constructed so far
  stopTimers,             \* pending setTimeout(stopRecording, 5000)
  recordBtnDisabled,
  recordBtnRecordingClass,
  screenshotBtnDisabled,
  randomBtnDisabled,
  filterListPointerEvents,
  delivered,              \* downloads triggered by handleRecordingStop
  startResult,            \* how the last startRecording() call ended
  supported,              \* the mimeTypes entries MediaRecorder.isTypeSupported accepts
  videoReady,
  rafPending,             \* requestAnimationFrame(renderLoop) callbacks not yet run
  ctxStack,               \* the drawing states pushed by ctx.save()
  ctxTransform,           \* the current transformation matrix of ctx
  ctxComposite,           \* ctx.globalCompositeOperation
  canvasFrame,            \* what the bitmap of the canvas element holds
  lastTick,               \* what the last run of renderLoop did
  download,               \* the last link.download of takeScreenshot
  pixel,                  \* one RGBA pixel handed to the trickster mapping
  tricksterOut,           \* the pixel the trickster mapping stored for it
  image,                  \* an RGBA bitmap handed to the anima effect
  animaOut                \* the bitmap the anima effect put back

vars == <<currentFilter, canvasClassName, activeButton, spins, isRecording,
          recordedChunks, mediaRecorder, recorders, stopTimers,
          recordBtnDisabled, recordBtnRecordingClass, screenshotBtnDisabled,
          randomBtnDisabled, filterListPointerEvents, delivered, startResult,
          supported, videoReady, rafPending, ctxStack, ctxTransform,
          ctxComposite, canvasFrame, lastTick, download, pixel, tricksterOut,
          image, animaOut>>

selectorVars == <<currentFilter, canvasClassName, activeButton>>
lockVars == <<recordBtnDisabled, recordBtnRecordingClass, screenshotBtnDisabled,
              randomBtnDisabled, filterListPointerEvents>>
recordingVars == <<isRecording, recordedChunks, mediaRecorder, recorders,
                   stopTimers, delivered, startResult>>
ctxVars == <<ctxStack, ctxTransform, ctxComposite>>
canvasVars == <<videoReady, rafPending, ctxVars, canvasFrame, lastTick, download>>
pixelVars == <<pixel, tricksterOut, image, animaOut>>

(***************************************************************************)
(* Helpers.                                                                *)
(***************************************************************************)
\* String.prototype.startsWith
StartsWith(s, prefix) ==
  /\ Len(s) >= Len(prefix)
  /\ SubSeq(s, 1, Len(prefix)) = prefix

\* the preference list searched from its end: the last supported entry
LastSupported(sup) ==
  IF \E i \in DOMAIN mimeTypes : i \in sup
  THEN CHOOSE i \in DOMAIN mimeTypes :
         /\ i \in sup
         /\ \A j \in DOMAIN mimeTypes : j \in sup => i >= j
  ELSE 0

\* Array.prototype.find over mimeTypes with MediaRecorder.isTypeSupported:
\* the index of the first supported entry, 0 when find returns undefined
FirstSupported(sup) ==
  IF \E i \in DOMAIN mimeTypes : i \in sup
  THEN CHOOSE i \in DOMAIN mimeTypes :
         /\ i \in sup
         /\ \A j \in DOMAIN mimeTypes : j \in sup => i <= j
  ELSE 0

\* the bytes of a blob: a blob of size 0 has none, any other is one token
\* naming the encoder that produced it and its position in that encoder's output
BlobBytes(b) == IF b.size = 0 THEN <<>> ELSE << <<b.rec, b.n>> >>

\* new Blob(chunks): the chunks' bytes, concatenated in array order
RECURSIVE BlobOf(_)
BlobOf(chunks) ==
  IF chunks = <<>> THEN <<>>
  ELSE BlobBytes(Head(chunks)) \o BlobOf(Tail(chunks))

\* a free slot for a new interval timer (0 when MaxSpins are active)
FreeSpin ==
  IF \E s \in 1..MaxSpins : ~spins[s].active
  THEN CHOOSE s \in 1..MaxSpins :
         /\ ~spins[s].active
         /\ \A t \in 1..MaxSpins : ~spins[t].active => s <= t
  ELSE 0

NoSpin == [active |-> FALSE, loops |-> 0, startId |-> Undefined]

(***************************************************************************)
(* Initial state: DOMContentLoaded has run and init() has completed        *)
(* (applyFilter('self')); nothing is recording, no control is disabled.    *)
(***************************************************************************)
InitPage ==
  /\ currentFilter = archetypes[1]
  /\ canvasClassName = archetypes[1]
  /\ activeButton = archetypes[1]
  /\ spins = [s \in 1..MaxSpins |-> NoSpin]
  /\ isRecording = FALSE
  /\ recordedChunks = <<>>
  /\ mediaRecorder = 0
  /\ recorders = <<>>
  /\ stopTimers = 0
  /\ recordBtnDisabled = FALSE
  /\ recordBtnRecordingClass = FALSE
  /\ screenshotBtnDisabled = FALSE
  /\ randomBtnDisabled = FALSE
  /\ filterListPointerEvents = "auto"
  /\ delivered = <<>>
  /\ startResult = "none"
  /\ supported \in SUBSET (DOMAIN mimeTypes)

\* the drawing state of a fresh 2d context
InitCtx ==
  /\ ctxStack = <<>>
  /\ ctxTransform = "identity"
  /\ ctxComposite = "source-over"

\* a bitmap nothing was drawn on
Blank == [orientation |-> "blank", effect |-> Undefined,
          composite |-> Undefined, slice |-> FALSE, split |-> FALSE]

\* a bitmap holding the camera frame: how it was oriented, the mode it was
\* composited with, the overlay drawn over it and the glitch stages that fired
Frame(o, e, c, sl, sp) ==
  [orientation |-> o, effect |-> e, composite |-> c, slice |-> sl, split |-> sp]

\* init() awaited startCamera (videoReady = true) and called renderLoop()
\* once: the first frame is drawn with the 'self' overlay and the next tick
\* is requested
InitCanvas ==
  /\ videoReady = TRUE
  /\ rafPending = 1
  /\ InitCtx
  /\ canvasFrame = Frame("mirrored", archetypes[1], "source-over", FALSE, FALSE)
  /\ lastTick = "drawn"
  /\ download = "none"

\* no bitmap has been handed to a pixel effect
InitPixels ==
  /\ pixel = <<0, 0, 0, 0>>
  /\ tricksterOut = <<>>
  /\ image = <<>>
  /\ animaOut = <<>>

Init ==
  /\ InitPage
  /\ InitCanvas
  /\ InitPixels


(***************************************************************************)
(* Effect selector.                                                        *)
(***************************************************************************)
\* archetypes.find(a => a.id === filterId): the id found, or Undefined
Find(filterId) == IF filterId \in ArchetypeIds THEN filterId ELSE Undefined

\* an applyFilter that assigns currentFilter and leaves canvas.className and
\* the active button as they are
applyFilterNoDisplay(filterId) ==
  /\ currentFilter' = Find(filterId)
  /\ UNCHANGED <<canvasClassName, activeButton>>

\* applyFilter(filterId): currentFilter is assigned first; when find missed,
\* reading currentFilter.id throws a TypeError and nothing after it runs
applyFilter(filterId) ==
  /\ currentFilter' = Find(filterId)
  /\ IF Find(filterId) = Undefined
     THEN UNCHANGED <<canvasClassName, activeButton>>
     ELSE /\ canvasClassName' = Find(filterId)
          /\ activeButton' = filterId

\* the ids the do-while of the final tick can leave in finalArch: it redraws
\* until the draw differs from the id that is current at that moment
FinalDraw(cur) == {a \in ArchetypeIds : a # cur}

\* click on a filter button (initFilterButtons); the list ignores the pointer
\* while filterList.style.pointerEvents is 'none'
ClickFilter(id) ==
  /\ filterListPointerEvents = "auto"
  /\ applyFilter(id)
  /\ UNCHANGED <<spins, lockVars, recordingVars, supported, canvasVars, pixelVars>>

\* a slot machine whose counter starts one above `let loops = 15`
randomFilterSlotMachineLong ==
  /\ FreeSpin # 0
  /\ randomBtnDisabled' = TRUE
  /\ filterListPointerEvents' = "none"
  /\ spins' = [spins EXCEPT ![FreeSpin] =
                 [active |-> TRUE, loops |-> SpinLoops + 1, startId |-> currentFilter]]
  /\ UNCHANGED <<selectorVars, recordBtnDisabled, recordBtnRecordingClass,
                 screenshotBtnDisabled, recordingVars, supported, canvasVars, pixelVars>>

\* randomFilterSlotMachine(): disables the two selection controls and starts
\* an interval timer with its own loops counter
randomFilterSlotMachine ==
  /\ FreeSpin # 0
  /\ randomBtnDisabled' = TRUE
  /\ filterListPointerEvents' = "none"
  /\ spins' = [spins EXCEPT ![FreeSpin] =
                 [active |-> TRUE, loops |-> SpinLoops, startId |-> currentFilter]]
  /\ UNCHANGED <<selectorVars, recordBtnDisabled, recordBtnRecordingClass,
                 screenshotBtnDisabled, recordingVars, supported, canvasVars, pixelVars>>

\* click on the random button
ClickRandom ==
  /\ ~randomBtnDisabled
  /\ randomFilterSlotMachine

\* an interval callback without `loops--`
SpinTickNoCount(s) ==
  /\ spins[s].active
  /\ \E randomArch \in ArchetypeIds :
       IF spins[s].loops > 0
       THEN /\ spins' = spins
            /\ canvasClassName' = randomArch
            /\ activeButton' = randomArch
            /\ UNCHANGED <<currentFilter, lockVars>>
       ELSE /\ spins' = [spins EXCEPT ![s] = NoSpin]
            /\ IF currentFilter = Undefined
               THEN /\ canvasClassName' = randomArch
                    /\ activeButton' = randomArch
                    /\ UNCHANGED <<currentFilter, lockVars>>
               ELSE /\ \E finalArch \in FinalDraw(currentFilter) :
                         applyFilter(finalArch)
                    /\ randomBtnDisabled' = FALSE
                    /\ filterListPointerEvents' = "auto"
                    /\ UNCHANGED <<recordBtnDisabled, recordBtnRecordingClass,
                                   screenshotBtnDisabled>>
  /\ UNCHANGED <<recordingVars, supported, canvasVars, pixelVars>>

\* one firing of the interval callback of spin s
SpinTick(s) ==
  /\ spins[s].active
  /\ \E randomArch \in ArchetypeIds :
       IF spins[s].loops - 1 > 0
       THEN /\ spins' = [spins EXCEPT ![s].loops = @ - 1]
            /\ canvasClassName' = randomArch
            /\ activeButton' = randomArch
            /\ UNCHANGED <<currentFilter, lockVars>>
       ELSE /\ spins' = [spins EXCEPT ![s] = NoSpin]
            /\ IF currentFilter = Undefined
               THEN \* currentFilter.id throws inside the do-while
                    /\ canvasClassName' = randomArch
                    /\ activeButton' = randomArch
                    /\ UNCHANGED <<currentFilter, lockVars>>
               ELSE /\ \E finalArch \in FinalDraw(currentFilter) :
                         applyFilter(finalArch)
                    /\ randomBtnDisabled' = FALSE
                    /\ filterListPointerEvents' = "auto"
                    /\ UNCHANGED <<recordBtnDisabled, recordBtnRecordingClass,
                                   screenshotBtnDisabled>>
  /\ UNCHANGED <<recordingVars, supported, canvasVars, pixelVars>>

(***************************************************************************)
(* Clip recorder.                                                          *)
(***************************************************************************)
\* `if (mediaRecorder && mediaRecorder.state === 'recording') mediaRecorder.stop()`:
\* stop() makes the recorder inactive at once and queues the task that fires
\* dataavailable (the data gathered so far) and then stop
StopRecorder(recs, mr) ==
  IF mr # 0 /\ recs[mr].state = "recording"
  THEN [recs EXCEPT ![mr].state = "inactive", ![mr].flushPending = TRUE]
  ELSE recs

\* stopRecording()
stopRecording ==
  /\ recorders' = StopRecorder(recorders, mediaRecorder)
  /\ isRecording' = FALSE
  /\ recordBtnRecordingClass' = FALSE
  /\ recordBtnDisabled' = FALSE
  /\ screenshotBtnDisabled' = FALSE
  /\ randomBtnDisabled' = FALSE
  /\ filterListPointerEvents' = "auto"

\* the "Disable Controls" block of startRecording
LockControls ==
  /\ recordBtnRecordingClass' = TRUE
  /\ recordBtnDisabled' = TRUE
  /\ screenshotBtnDisabled' = TRUE
  /\ randomBtnDisabled' = TRUE
  /\ filterListPointerEvents' = "none"

\* new MediaRecorder(stream, {mimeType}) with both handlers attached
NewRecorder(mime, st) ==
  [state |-> st, mimeType |-> mime, flushPending |-> FALSE,
   produced |-> <<>>, errored |-> FALSE]

\* what the platform does with the constructor and with start()
StartOutcomes == {"ok", "createThrows", "startThrows"}

\* the unsupported branch, had it returned without stopRecording()
rejectUnsupportedNoReset ==
  /\ isRecording' = TRUE
  /\ recordedChunks' = <<>>
  /\ LockControls
  /\ startResult' = "NoSupportedProfile"
  /\ UNCHANGED <<mediaRecorder, recorders, stopTimers, delivered>>

\* `if (!supportedMimeType) { ...; stopRecording(); return; }`, reached with
\* isRecording set, the chunk list emptied and the controls locked:
\* stopRecording() undoes the flag and the locking
rejectUnsupported ==
  /\ recordedChunks' = <<>>
  /\ stopRecording
  /\ startResult' = "NoSupportedProfile"
  /\ UNCHANGED <<mediaRecorder, stopTimers, delivered>>

\* startRecording() past its first line; outcome is the platform's answer to
\* the constructor and to start() when the function gets that far
startRecordingBody(outcome) ==
  IF FirstSupported(supported) = 0
  THEN rejectUnsupported
  ELSE /\ isRecording' = TRUE
       /\ recordedChunks' = <<>>
       /\ LockControls
       /\ UNCHANGED delivered
       /\ CASE outcome = "createThrows" ->
                 /\ startResult' = "createThrows"
                 /\ UNCHANGED <<mediaRecorder, recorders, stopTimers>>
            [] outcome = "startThrows" ->
                 /\ recorders' = Append(recorders,
                        NewRecorder(mimeTypes[FirstSupported(supported)], "inactive"))
                 /\ mediaRecorder' = Len(recorders) + 1
                 /\ startResult' = "startThrows"
                 /\ UNCHANGED stopTimers
            [] OTHER ->
                 /\ recorders' = Append(recorders,
                        NewRecorder(mimeTypes[FirstSupported(supported)], "recording"))
                 /\ mediaRecorder' = Len(recorders) + 1
                 /\ stopTimers' = stopTimers + 1
                 /\ startResult' = "started"

\* startRecording() without its `if (isRecording) return;` line
startRecordingNoGuard(outcome) == startRecordingBody(outcome)

\* startRecording(): `if (isRecording) return;` and then the body
startRecording(outcome) ==
  IF isRecording
  THEN /\ startResult' = "AlreadyRecording"
       /\ UNCHANGED <<isRecording, recordedChunks, mediaRecorder, recorders,
                      stopTimers, delivered, lockVars>>
  ELSE startRecordingBody(outcome)

\* click on the record button; a disabled button fires no click
ClickRecord ==
  /\ ~recordBtnDisabled
  /\ isRecording \/ Len(recorders) < MaxSessions
  /\ \E outcome \in StartOutcomes : startRecording(outcome)
  /\ UNCHANGED <<selectorVars, spins, supported, canvasVars, pixelVars>>

\* the 5000 ms timeout set by startRecording expires
StopTimer ==
  /\ stopTimers > 0
  /\ stopTimers' = stopTimers - 1
  /\ stopRecording
  /\ UNCHANGED <<selectorVars, spins, recordedChunks, mediaRecorder,
                 delivered, startResult, supported, canvasVars, pixelVars>>

\* mediaRecorder.ondataavailable
OnDataAvailable(chunks, blob) ==
  IF blob.size > 0 THEN Append(chunks, blob) ELSE chunks

\* the next blob of encoder r
NextBlob(r, size) == [rec |-> r, n |-> Len(recorders[r].produced) + 1, size |-> size]

\* encoder r hands over a segment while it is recording: it does so once it
\* has gathered data, so the blob is not empty
DataAvailable(r) ==
  /\ r \in DOMAIN recorders
  /\ recorders[r].state = "recording"
  /\ Len(recorders[r].produced) < MaxSegments
  /\ recorders' = [recorders EXCEPT ![r].produced = Append(@, 1)]
  /\ recordedChunks' = OnDataAvailable(recordedChunks, NextBlob(r, 1))
  /\ UNCHANGED <<selectorVars, spins, lockVars, isRecording, mediaRecorder,
                 stopTimers, delivered, startResult, supported, canvasVars, pixelVars>>

\* encoder r fails while recording: the platform inactivates the recorder,
\* fires error (no handler is attached) and queues dataavailable and stop
EncoderError(r) ==
  /\ r \in DOMAIN recorders
  /\ recorders[r].state = "recording"
  /\ recorders' = [recorders EXCEPT ![r].state = "inactive",
                                    ![r].flushPending = TRUE,
                                    ![r].errored = TRUE]
  /\ UNCHANGED <<selectorVars, spins, lockVars, isRecording, recordedChunks,
                 mediaRecorder, stopTimers, delivered, startResult, supported, canvasVars, pixelVars>>

\* 'mp4' or 'webm', from the mimeType of the recorder the variable names
FileExtension(mime) == IF StartsWith(mime, VideoMp4Prefix) THEN "mp4" ELSE "webm"

\* a stop handler that builds the blob and triggers no download
handleRecordingStopNoDownload(r, chunks) == delivered

\* handleRecordingStop(), run as the onstop handler of encoder r with the
\* chunk list as it stands: the downloads after it.  Reading currentFilter.id
\* for the file name throws when currentFilter is undefined, before link.click()
handleRecordingStop(r, chunks) ==
  IF currentFilter = Undefined
  THEN delivered
  ELSE Append(delivered,
              [rec |-> r,
               bytes |-> BlobOf(chunks),
               type |-> recorders[mediaRecorder].mimeType,
               ext |-> FileExtension(recorders[mediaRecorder].mimeType),
               filter |-> currentFilter])

\* the task queued by stop() or by a failure of encoder r: dataavailable with
\* what was gathered since the last segment (possibly nothing: size 0), then stop
EncoderFlush(r) ==
  /\ r \in DOMAIN recorders
  /\ recorders[r].flushPending
  /\ \E size \in {0, 1} :
       /\ recorders' = [recorders EXCEPT ![r].flushPending = FALSE,
                                         ![r].produced = Append(@, size)]
       /\ recordedChunks' = OnDataAvailable(recordedChunks, NextBlob(r, size))
       /\ delivered' = handleRecordingStop(r, recordedChunks')
  /\ UNCHANGED <<selectorVars, spins, lockVars, isRecording, mediaRecorder,
                 stopTimers, startResult, supported, canvasVars, pixelVars>>

(***************************************************************************)
(* Render loop and screenshot.  The 2d context is the record               *)
(* [stack, transform, composite]; ctx.filter is only ever assigned 'none'  *)
(* (applyDynamicFilter) and is left out.                                   *)
(***************************************************************************)
CtxNow == [stack |-> ctxStack, transform |-> ctxTransform, composite |-> ctxComposite]

\* ctx.save()
save(c) ==
  [c EXCEPT !.stack = Append(@, [transform |-> c.transform, composite |-> c.composite])]

\* a restore that pops nothing and leaves the drawing state as it is
restoreNothing(c) == c

\* ctx.restore(): pops the state saved last; does nothing on an empty stack
restore(c) ==
  IF c.stack = <<>> THEN c
  ELSE [stack |-> SubSeq(c.stack, 1, Len(c.stack) - 1),
        transform |-> c.stack[Len(c.stack)].transform,
        composite |-> c.stack[Len(c.stack)].composite]

\* ctx.translate(canvas.width, 0); ctx.scale(-1, 1): the horizontal flip is
\* multiplied into the current matrix, and two flips cancel
mirror(c) ==
  [c EXCEPT !.transform = IF @ = "identity" THEN "mirrored" ELSE "identity"]

\* how ctx.drawImage(video, 0, 0, w, h) lands on the bitmap under transform t
Orientation(t) == IF t = "mirrored" THEN "mirrored" ELSE "unmirrored"

\* applyShadowEffect(): when the RGB split fires, globalCompositeOperation is
\* set to 'lighter', the canvas is drawn over itself twice and the mode is
\* reset to 'source-over'
applyShadowEffect(c, split) ==
  IF split THEN [c EXCEPT !.composite = "source-over"] ELSE c

\* applyOverlayFilter(filterId): of the five overlays only 'shadow' assigns a
\* field of the drawing state kept here; 'anima', 'persona' and 'trickster'
\* go through getImageData/putImageData, which ignore transform and mode
applyOverlayFilter(c, filterId, split) ==
  IF filterId = "shadow" THEN applyShadowEffect(c, split) ELSE c

\* the Math.random() outcomes of one overlay: both glitch stages belong to
\* the shadow effect
Glitches(filterId) ==
  IF filterId = "shadow" THEN BOOLEAN \X BOOLEAN ELSE {<<FALSE, FALSE>>}

\* a renderLoop that does not ask for the next frame
requestAnimationFrameDropped(pending) == pending

\* requestAnimationFrame(renderLoop): one more callback is pending
requestAnimationFrame(pending) == pending + 1

\* renderLoop(), run as the requestAnimationFrame callback
RenderTick ==
  /\ rafPending > 0
  /\ IF ~videoReady
     THEN /\ rafPending' = requestAnimationFrame(rafPending - 1)
          /\ lastTick' = "skipped"
          /\ UNCHANGED <<ctxVars, canvasFrame>>
     ELSE IF currentFilter = Undefined
     THEN \* currentFilter.id throws after save, mirror and clearRect
          /\ rafPending' = rafPending - 1
          /\ lastTick' = "threw"
          /\ ctxStack' = mirror(save(CtxNow)).stack
          /\ ctxTransform' = mirror(save(CtxNow)).transform
          /\ UNCHANGED ctxComposite
          /\ canvasFrame' = Blank
     ELSE \E g \in Glitches(currentFilter) :
            LET c1 == mirror(save(CtxNow))
                c2 == applyOverlayFilter(c1, currentFilter, g[2])
                c3 == restore(c2)
            IN /\ canvasFrame' = Frame(Orientation(c1.transform), currentFilter,
                                       c1.composite, g[1], g[2])
               /\ ctxStack' = c3.stack
               /\ ctxTransform' = c3.transform
               /\ ctxComposite' = c3.composite
               /\ rafPending' = requestAnimationFrame(rafPending - 1)
               /\ lastTick' = "drawn"
  /\ UNCHANGED <<selectorVars, spins, lockVars, recordingVars, supported,
                 videoReady, download, pixelVars>>

\* video.onloadedmetadata: assigning canvas.width and canvas.height clears
\* the bitmap and resets the drawing state; then videoReady = true
LoadedMetadata ==
  /\ ~videoReady
  /\ videoReady' = TRUE
  /\ canvasFrame' = Blank
  /\ ctxStack' = <<>>
  /\ ctxTransform' = "identity"
  /\ ctxComposite' = "source-over"
  /\ UNCHANGED <<selectorVars, spins, lockVars, recordingVars, supported,
                 rafPending, lastTick, download, pixelVars>>

\* takeScreenshot(): draws the frame on the canvas of the live view, without
\* the mirror transform, encodes the canvas and clicks the download link
takeScreenshot ==
  IF currentFilter = Undefined
  THEN \* currentFilter.id throws before anything is drawn
       UNCHANGED <<ctxVars, canvasFrame, download>>
  ELSE \E g \in Glitches(currentFilter) :
         LET c1 == save(CtxNow)
             c2 == applyOverlayFilter(c1, currentFilter, g[2])
             c3 == restore(c2)
             shot == Frame(Orientation(c1.transform), currentFilter,
                           c1.composite, g[1], g[2])
         IN /\ canvasFrame' = shot
            /\ download' = [name |-> currentFilter, png |-> shot]
            /\ ctxStack' = c3.stack
            /\ ctxTransform' = c3.transform
            /\ ctxComposite' = c3.composite

\* click on the screenshot button; init() attaches the listener after
\* startCamera has resolved
ClickScreenshot ==
  /\ videoReady
  /\ ~screenshotBtnDisabled
  /\ takeScreenshot
  /\ UNCHANGED <<selectorVars, spins, lockVars, recordingVars, supported,
                 videoReady, rafPending, lastTick, pixelVars>>

(***************************************************************************)
(* Pixel effects.  A pixel is <<R, G, B, A>>, each channel a byte.  The    *)
(* code computes luma in double precision; here it is kept exactly, in     *)
(* thousandths.  The double result and the exact one fall on the same side *)
(* of every comparison and of every rounding for all 2^24 colours, except  *)
(* where the exact value lies halfway between two integers: there the      *)
(* double lands on either side (0.299*0 + 0.587*80 + 0.114*110 gives       *)
(* 59.49999999999999), so both neighbours are outcomes of the store.       *)
(***************************************************************************)
\* data[i] * 0.299 + data[i+1] * 0.587 + data[i+2] * 0.114, times 1000
LumaMilli(p) == 299 * p[1] + 587 * p[2] + 114 * p[3]

\* `const shadowThreshold = 55`
shadowThreshold == 55

\* `const passionFactor = 1.8`, times 10
passionFactorTenths == 18

\* the bytes a store of num/den (num >= 0, den > 0) into a Uint8ClampedArray
\* can leave: the value clamped to 255 and rounded to the nearest integer
ToUint8Clamped(num, den) ==
  LET q == num \div den
      r == num % den
  IN IF q >= 255 THEN {255}
     ELSE IF 2 * r < den THEN {q}
     ELSE IF 2 * r > den THEN {q + 1}
     ELSE {q, q + 1}

\* the trickster mapping with `luminance < shadowThreshold`
TricksterExclusive(p) ==
  IF LumaMilli(p) < shadowThreshold * 1000
  THEN {<<0, 0, 0, p[4]>>}
  ELSE {<<red, 0, 0, p[4]>> :
          red \in ToUint8Clamped(LumaMilli(p) * passionFactorTenths, 10000)}

\* the loop body of applyTricksterEffect(): the pixels it can store for p
Trickster(p) ==
  IF LumaMilli(p) <= shadowThreshold * 1000
  THEN {<<0, 0, 0, p[4]>>}
  ELSE {<<red, 0, 0, p[4]>> :
          red \in ToUint8Clamped(LumaMilli(p) * passionFactorTenths, 10000)}

\* applyTricksterEffect() on the pixel getImageData returned
ApplyTrickster ==
  /\ tricksterOut = <<>>
  /\ \E out \in Trickster(pixel) : tricksterOut' = out
  /\ UNCHANGED <<selectorVars, spins, lockVars, recordingVars, supported,
                 canvasVars, pixel, image, animaOut>>

\* `const threshold = 20`
animaThreshold == 20

\* the indices of the grayscale array, row by row
Idx == 0 .. (ImageWidth * ImageHeight - 1)

\* the pixels the two loops `y = 1 .. height - 2`, `x = 1 .. width - 2` visit
Interior(i) ==
  /\ i % ImageWidth \in 1 .. (ImageWidth - 2)
  /\ i \div ImageWidth \in 1 .. (ImageHeight - 2)

Abs(v) == IF v < 0 THEN -v ELSE v

\* `gray[i / 4] = luma`: luma stored into a Uint8ClampedArray; a luma that
\* lies exactly halfway is stored as the upper or the lower neighbour
Gray(p, up) ==
  LET bytes == ToUint8Clamped(LumaMilli(p), 1000)
  IN IF up THEN CHOOSE b \in bytes : \A c \in bytes : c <= b
     ELSE CHOOSE b \in bytes : \A c \in bytes : b <= c

\* the Laplacian kernel at index i of the grayscale array
Kernel(gray, i) ==
  4 * gray[i] - gray[i - 1] - gray[i + 1]
    - gray[i - ImageWidth] - gray[i + ImageWidth]

White == <<255, 255, 255, 255>>
DarkGrey == <<20, 20, 20, 255>>
\* a pixel of ctx.createImageData() that is never written
Transparent == <<0, 0, 0, 0>>

\* the edge pass with `Math.abs(val) >= threshold`
EdgePassInclusive(gray) ==
  [i \in Idx |->
     IF Interior(i)
     THEN IF Abs(Kernel(gray, i)) >= animaThreshold THEN White ELSE DarkGrey
     ELSE Transparent]

\* the edge pass of applyAnimaEffect(): the output ImageData
EdgePass(gray) ==
  [i \in Idx |->
     IF Interior(i)
     THEN IF Abs(Kernel(gray, i)) > animaThreshold THEN White ELSE DarkGrey
     ELSE Transparent]

\* applyAnimaEffect() on the bitmap getImageData returned: the grayscale
\* array it built and the ImageData it put back
ApplyAnima ==
  /\ animaOut = <<>>
  /\ \E up \in BOOLEAN :
       LET gray == [i \in Idx |-> Gray(image[i], up)]
       IN animaOut' = [gray |-> gray, data |-> EdgePass(gray)]
  /\ UNCHANGED <<selectorVars, spins, lockVars, recordingVars, supported,
                 canvasVars, pixel, tricksterOut, image>>

(***************************************************************************)
(* Handlers called directly, whatever the state of their control.          *)
(***************************************************************************)
\* an id no catalog entry carries
UnknownId == "bogus"

\* startRecording() called although the record button is disabled
CallStartRecording ==
  /\ recordBtnDisabled
  /\ isRecording \/ Len(recorders) < MaxSessions
  /\ \E outcome \in StartOutcomes : startRecording(outcome)
  /\ UNCHANGED <<selectorVars, spins, supported, canvasVars, pixelVars>>

\* applyFilter(id) called with any id, whatever filterList.style.pointerEvents
CallApplyFilter(id) ==
  /\ applyFilter(id)
  /\ UNCHANGED <<spins, lockVars, recordingVars, supported, canvasVars, pixelVars>>

\* stopRecording() called while nothing records: isRecording is false and no
\* MediaRecorder is in state 'recording' (src/app.js:499 makes this call on a
\* platform without a supported profile)
CallStopRecording ==
  /\ ~isRecording
  /\ IF mediaRecorder = 0 THEN TRUE
     ELSE recorders[mediaRecorder].state # "recording"
  /\ stopRecording
  /\ UNCHANGED <<selectorVars, spins, recordedChunks, mediaRecorder, stopTimers,
                 delivered, startResult, supported, canvasVars, pixelVars>>

(***************************************************************************)
(* The page: every handler is reached through its control or its timer.    *)
(* Spec is the whole page.  Its selector half and its recorder half share  *)
(* only the controls' disabled flags and currentFilter, and the claims are *)
(* checked on the halves:                                                  *)
(*   SpecRecorder        the recorder, on every platform;                  *)
(*   SpecRecorderDirect  the recorder, startRecording() also called        *)
(*                       directly, on two platforms;                       *)
(*   SpecSelector        the selector and the record button on a platform  *)
(*                       that supports none of mimeTypes;                  *)
(*   SpecSelectorDirect  the selector, applyFilter() also called directly; *)
(*   SpecSelectorStop    the selector, stopRecording() also called while   *)
(*                       nothing records;                                  *)
(*   SpecSpin            the selector alone, SpecSpinFair with its timers  *)
(*                       firing;                                           *)
(*   SpecRecorderFair    the recorder with its timeout and its encoder     *)
(*                       events firing, on two platforms;                  *)
(*   SpecRender          the render loop, the screenshot and the selector; *)
(*   SpecTrickster       the trickster mapping on one pixel;               *)
(*   SpecAnima           the anima effect on one bitmap.                   *)
(***************************************************************************)
NextSelector ==
  \/ \E id \in ArchetypeIds : ClickFilter(id)
  \/ ClickRandom
  \/ \E s \in 1..MaxSpins : SpinTick(s)

NextRecorder ==
  \/ ClickRecord
  \/ StopTimer
  \/ \E r \in 1..MaxSessions : DataAvailable(r)
  \/ \E r \in 1..MaxSessions : EncoderError(r)
  \/ \E r \in 1..MaxSessions : EncoderFlush(r)

Next == NextSelector \/ NextRecorder

Spec == Init /\ [][Next]_vars

SpecRecorder == Init /\ [][NextRecorder]_vars

NextRecorderDirect == NextRecorder \/ CallStartRecording

\* a platform that supports every entry of mimeTypes, or none: a start that
\* is turned away at `if (isRecording) return;` never asks the platform
InitAllOrNoProfile == Init /\ supported \in {{}, DOMAIN mimeTypes}

SpecRecorderDirect == InitAllOrNoProfile /\ [][NextRecorderDirect]_vars

\* a platform on which MediaRecorder.isTypeSupported rejects every entry
InitNoProfile == Init /\ supported = {}

NextSelectorRecord == NextSelector \/ ClickRecord

SpecSelector == InitNoProfile /\ [][NextSelectorRecord]_vars

NextSelectorDirect ==
  \/ NextSelector
  \/ \E id \in ArchetypeIds \cup {UnknownId} : CallApplyFilter(id)

SpecSelectorDirect == InitNoProfile /\ [][NextSelectorDirect]_vars

\* the 5000 ms timeout fires, and the task a stopped encoder queued runs
RecorderFairness ==
  /\ WF_vars(StopTimer)
  /\ \A r \in 1..MaxSessions : WF_vars(EncoderFlush(r))

\* the recorder on a platform that supports every entry of mimeTypes or none
SpecRecorderFair ==
  InitAllOrNoProfile /\ [][NextRecorder]_vars /\ RecorderFairness

\* the selector alone
SpecSpin == InitNoProfile /\ [][NextSelector]_vars

\* setInterval keeps firing the callback of a timer that is not cleared
SpinFairness == \A s \in 1..MaxSpins : WF_vars(SpinTick(s))

SpecSpinFair == SpecSpin /\ SpinFairness

\* renderLoop() entered before the camera has delivered its metadata: the
\* source is not ready, nothing is drawn, the next tick is requested
InitCanvasEarly ==
  /\ videoReady = FALSE
  /\ rafPending = 1
  /\ InitCtx
  /\ canvasFrame = Blank
  /\ lastTick = "skipped"
  /\ download = "none"

InitRender ==
  /\ InitPage
  /\ supported = {}
  /\ InitCanvas \/ InitCanvasEarly
  /\ InitPixels

NextRender ==
  \/ RenderTick
  \/ LoadedMetadata
  \/ ClickScreenshot
  \/ NextSelector

\* the render loop beside the screenshot button and the selector; the
\* recorder's handlers assign none of canvasVars
SpecRender == InitRender /\ [][NextRender]_vars

\* the pixels handed to the trickster mapping: every red level with a few
\* green, blue and alpha levels, and every grey
GreenSamples == {0, 55, 89, 156, 255}
BlueSamples == {0, 33, 52, 55, 255}
AlphaSamples == {0, 128, 255}
PixelSamples ==
  ((0..255) \X GreenSamples \X BlueSamples \X AlphaSamples)
  \cup {<<v, v, v, a>> : v \in 0..255, a \in AlphaSamples}

InitTrickster ==
  /\ InitPage
  /\ supported = {}
  /\ InitCanvas
  /\ pixel \in PixelSamples
  /\ tricksterOut = <<>>
  /\ image = <<>>
  /\ animaOut = <<>>

\* the trickster mapping applied to one pixel
SpecTrickster == InitTrickster /\ [][ApplyTrickster]_vars

\* the colours of the bitmaps handed to the anima effect
Palette ==
  {<<0, 0, 0, 255>>, <<0, 0, 1, 255>>, <<0, 8, 4, 255>>, <<21, 21, 21, 255>>,
   <<1, 37, 13, 255>>, <<255, 255, 255, 0>>}

Backgrounds == {<<0, 0, 0, 255>>, <<0, 0, 1, 255>>}

\* a bitmap of colour bg in which the pixel at c and its left, right, top
\* and bottom neighbours carry the colours of patch
Patched(c, bg, patch) ==
  [i \in Idx |->
     IF i = c THEN patch[1]
     ELSE IF i = c - 1 THEN patch[2]
     ELSE IF i = c + 1 THEN patch[3]
     ELSE IF i = c - ImageWidth THEN patch[4]
     ELSE IF i = c + ImageWidth THEN patch[5]
     ELSE bg]

InitAnima ==
  /\ InitPage
  /\ supported = {}
  /\ InitCanvas
  /\ pixel = <<0, 0, 0, 0>>
  /\ tricksterOut = <<>>
  /\ \E c \in {i \in Idx : Interior(i)}, bg \in Backgrounds,
        patch \in [1..5 -> Palette] : image = Patched(c, bg, patch)
  /\ animaOut = <<>>

\* the anima effect applied to one bitmap
SpecAnima == InitAnima /\ [][ApplyAnima]_vars

NextSelectorStop == NextSelector \/ CallStopRecording

\* the selector, stopRecording() also called while nothing records
SpecSelectorStop == InitNoProfile /\ [][NextSelectorStop]_vars

(***************************************************************************)
(* Vocabulary of the claims.                                               *)
(***************************************************************************)
\* encoder r is recording, or has been stopped and its stop handler has not run
SessionLive(r) == recorders[r].state = "recording" \/ recorders[r].flushPending

SessionBusy == isRecording \/ \E r \in DOMAIN recorders : SessionLive(r)

AllLocked ==
  /\ recordBtnDisabled
  /\ screenshotBtnDisabled
  /\ randomBtnDisabled
  /\ filterListPointerEvents = "none"

AllUnlocked ==
  /\ ~recordBtnDisabled
  /\ ~screenshotBtnDisabled
  /\ ~randomBtnDisabled
  /\ filterListPointerEvents = "auto"

SpinInFlight == \E s \in 1..MaxSpins : spins[s].active

\* recorder r was started: mediaRecorder.start() returned
Started(r) ==
  \/ recorders[r].state = "recording"
  \/ recorders[r].flushPending
  \/ recorders[r].produced # <<>>

Delivered(r) == \E k \in DOMAIN delivered : delivered[k].rec = r

\* the left, right, top and bottom neighbours of index i, and the diagonal ones
Adjacent(i) == {i - 1, i + 1, i - ImageWidth, i + ImageWidth}
Diagonal(i) ==
  {i - ImageWidth - 1, i - ImageWidth + 1, i + ImageWidth - 1, i + ImageWidth + 1}

\* every pixel of the bitmap but the one at c has the colour bg (index 0 is
\* a corner, so image[0] is the colour of the rest when c is off the border)
UniformBut(c, bg) == \A i \in Idx : i # c => image[i] = bg

\* the interval timers that are active
ActiveSpins == {s \in 1..MaxSpins : spins[s].active}

\* every blob encoder r has produced, in production order
ProducedBlobs(r) ==
  [n \in 1..Len(recorders[r].produced) |->
     [rec |-> r, n |-> n, size |-> recorders[r].produced[n]]]

(***************************************************************************)
(* C1: startRecording() in any state other than Idle (Recording, or        *)
(* Finalizing: stop requested, stop handler not yet run) is rejected: it   *)
(* creates no recorder and leaves the chunk list alone.                    *)
(* Fails under SpecRecorder: stopRecording() clears isRecording and        *)
(* re-enables the record button before the encoder's stop handler has run. *)
(***************************************************************************)
C1_StartRejectedUnlessIdle ==
  [][(ClickRecord /\ SessionBusy)
       => UNCHANGED <<recorders, recordedChunks, mediaRecorder>>]_vars

(***************************************************************************)
(* C2: startRecording() while isRecording is set fails and leaves the      *)
(* session untouched: chunk list, recorders, the recorder variable, the    *)
(* pending stop timer, the flag and the controls are unchanged.            *)
(***************************************************************************)
C2_StartWhileRecordingRejected ==
  [][((ClickRecord \/ CallStartRecording) /\ isRecording)
       => /\ startResult' = "AlreadyRecording"
          /\ UNCHANGED <<recordedChunks, recorders, mediaRecorder, stopTimers,
                         isRecording, delivered, lockVars>>]_vars

\* a start was rejected while a session with collected chunks and an armed
\* stop timer was recording
C2_Witness ==
  /\ startResult = "AlreadyRecording"
  /\ isRecording
  /\ recordedChunks # <<>>
  /\ stopTimers = 1
  /\ mediaRecorder # 0

(***************************************************************************)
(* C3: every payload delivered for a session is exactly the concatenation, *)
(* in production order, of the segments that session's encoder produced.   *)
(* Fails under SpecRecorder (a start during finalizing, see C1, empties    *)
(* and then shares the one chunk list).                                    *)
(***************************************************************************)
C3_PayloadIsSessionSegments ==
  \A k \in DOMAIN delivered :
    delivered[k].bytes = BlobOf(ProducedBlobs(delivered[k].rec))

(***************************************************************************)
(* C4: from a successful start until the stop handler has delivered, all   *)
(* four controls stay locked.                                              *)
(* Fails under SpecRecorder: stopRecording() unlocks at the stop request.  *)
(***************************************************************************)
C4_LockedUntilFinalized ==
  (\E r \in DOMAIN recorders : SessionLive(r)) => AllLocked

(***************************************************************************)
(* C5: the id a spin settles on its final tick differs from the id that    *)
(* was current when that spin was triggered.                               *)
(* Fails under SpecSelector: the final draw excludes the id current at the *)
(* final tick, and a selection can be made during the spin (see C6).       *)
(***************************************************************************)
C5_FinalDiffersFromStart ==
  [][\A s \in 1..MaxSpins :
       (SpinTick(s) /\ spins[s].active /\ ~spins'[s].active)
         => currentFilter' # spins[s].startId]_vars

(***************************************************************************)
(* C6: while a spin is in flight the filter list takes no click.           *)
(* Fails under SpecSelector: stopRecording(), run by a rejected            *)
(* startRecording(), re-enables the list and the random button.            *)
(***************************************************************************)
C6_NoSelectionDuringSpin ==
  SpinInFlight => filterListPointerEvents = "none"

(***************************************************************************)
(* C7: currentFilter is a catalog entry in every reachable state (an       *)
(* unknown id leaves it unchanged).                                        *)
(* Fails under SpecSelectorDirect: applyFilter assigns the result of find  *)
(* before it looks at it.                                                  *)
(***************************************************************************)
C7_CurrentIdInCatalog == currentFilter \in ArchetypeIds

(***************************************************************************)
(* C8: on a platform that supports no entry of the preference list every   *)
(* startRecording() fails: afterwards isRecording is clear, the four       *)
(* controls are unlocked, no stop timer is armed, and nothing is           *)
(* delivered, then or later.                                               *)
(***************************************************************************)
C8_NoSupportedProfile ==
  (supported \cap DOMAIN mimeTypes = {})
    => /\ startResult \in {"none", "NoSupportedProfile"}
       /\ ~isRecording
       /\ AllUnlocked
       /\ ~recordBtnRecordingClass
       /\ stopTimers = 0
       /\ recorders = <<>>
       /\ delivered = <<>>

\* startRecording() has run and failed for want of a profile
C8_Witness ==
  /\ supported = {}
  /\ startResult = "NoSupportedProfile"

(***************************************************************************)
(* C9: when the encoder fails (constructor, start(), or while recording)   *)
(* the recorder is idle again, the controls are unlocked, the chunks are   *)
(* discarded and no payload of the failed encoder is delivered.            *)
(* Fails under SpecRecorder: nothing catches the exceptions, and no error  *)
(* handler is attached.                                                    *)
(***************************************************************************)
C9_EncoderFailureAborts ==
  /\ startResult \in {"createThrows", "startThrows"}
       => (~isRecording /\ AllUnlocked /\ recordedChunks = <<>>)
  /\ \A k \in DOMAIN delivered : ~recorders[delivered[k].rec].errored

(***************************************************************************)
(* C10: a session records with the earliest supported entry of the         *)
(* preference list, and a delivered file has extension 'mp4' exactly when  *)
(* the profile of the session it belongs to is the mp4 entry, else 'webm'. *)
(***************************************************************************)
C10_ProfileAndExtension ==
  /\ \A r \in DOMAIN recorders :
       \E i \in supported :
         /\ recorders[r].mimeType = mimeTypes[i]
         /\ \A j \in supported : i <= j
  /\ \A k \in DOMAIN delivered :
       delivered[k].ext =
         IF recorders[delivered[k].rec].mimeType = mimeTypes[1]
         THEN "mp4" ELSE "webm"

\* a platform without mp4 that supports the second and the last entry has
\* delivered a webm file recorded with the second entry
C10_Witness ==
  /\ supported = {2, 4}
  /\ delivered # <<>>
  /\ delivered[1].ext = "webm"
  /\ recorders[delivered[1].rec].mimeType = mimeTypes[2]

(***************************************************************************)
(* C13: stopRecording() invoked when no session is recording is a no-op:   *)
(* the recording state, the chunk list and the lock state of every control *)
(* (the locks a running spin holds included) are unchanged.                *)
(* Fails under SpecSelectorStop: stopRecording() re-enables the four       *)
(* controls unconditionally, so it releases the random button and the      *)
(* filter list while the spin that disabled them is still ticking.         *)
(***************************************************************************)
C13_StopWhenIdleIsNoOp ==
  [][CallStopRecording =>
       UNCHANGED <<isRecording, recordedChunks, lockVars>>]_vars

(***************************************************************************)
(* C14: every triggered spin eventually ends (the interval keeps firing,   *)
(* the final draw differs from the current id), and when it ends its timer *)
(* is cancelled, the effect selected is the final id shown and the         *)
(* controls the spin disabled are enabled again.                           *)
(***************************************************************************)
C14_SpinEnds ==
  /\ \A s \in 1..MaxSpins : spins[s].active ~> ~spins[s].active
  /\ [][\A s \in 1..MaxSpins :
          (spins[s].active /\ ~spins'[s].active) =>
             /\ currentFilter' \in ArchetypeIds
             /\ canvasClassName' = currentFilter'
             /\ activeButton' = currentFilter'
             /\ ~randomBtnDisabled'
             /\ filterListPointerEvents' = "auto"]_vars

\* a spin that has one tick left holds both selection controls
C14_Witness ==
  \E s \in 1..MaxSpins :
    /\ spins[s].active
    /\ spins[s].loops = 1
    /\ randomBtnDisabled
    /\ filterListPointerEvents = "none"

(***************************************************************************)
(* C18: a spin fires exactly 15 ticks.  Each of the first 14 changes only  *)
(* the id shown and leaves the current id alone; the 15th selects the      *)
(* final id and cancels the timer, so no tick of that spin follows.        *)
(***************************************************************************)
C18_FifteenTicks ==
  [][\A s \in 1..MaxSpins :
       /\ (~spins[s].active /\ spins'[s].active) => spins'[s].loops = 15
       /\ spins[s].active => spins[s].loops \in 1..15
       /\ (spins[s].active /\ spins'[s] # spins[s]) =>
            IF 15 - spins[s].loops < 14
            THEN /\ spins'[s].active
                 /\ spins'[s].loops = spins[s].loops - 1
                 /\ UNCHANGED <<currentFilter, lockVars>>
            ELSE /\ ~spins'[s].active
                 /\ currentFilter' # currentFilter
                 /\ canvasClassName' = currentFilter'
                 /\ activeButton' = currentFilter']_vars

\* fourteen ticks have fired: the id shown is not the current id, which is
\* still the one the spin started from
C18_Witness ==
  \E s \in 1..MaxSpins :
    /\ spins[s].active
    /\ 15 - spins[s].loops = 14
    /\ currentFilter = spins[s].startId
    /\ canvasClassName # currentFilter

(***************************************************************************)
(* C15: every successful startRecording() is eventually followed by the    *)
(* delivery of its clip and by the return to Idle (not recording, every    *)
(* control enabled); a started recorder delivers exactly once, and the     *)
(* downloads never outnumber the successful starts.                        *)
(***************************************************************************)
C15_OneDeliveryPerStart ==
  /\ \A r \in 1..MaxSessions :
        (r \in DOMAIN recorders /\ recorders[r].state = "recording")
           ~> (r \in DOMAIN recorders /\ Delivered(r))
  /\ \A r \in 1..MaxSessions :
        (r \in DOMAIN recorders /\ recorders[r].state = "recording")
           ~> (~isRecording /\ AllUnlocked)
  /\ [](/\ \A k, l \in DOMAIN delivered :
              delivered[k].rec = delivered[l].rec => k = l
        /\ \A k \in DOMAIN delivered :
              delivered[k].rec \in DOMAIN recorders /\ Started(delivered[k].rec)
        /\ Len(delivered) <=
              Cardinality({r \in DOMAIN recorders : Started(r)}))

\* two sessions were started and both clips were delivered
C15_Witness ==
  /\ Len(delivered) = 2
  /\ delivered[1].rec # delivered[2].rec
  /\ ~isRecording
  /\ AllUnlocked

(***************************************************************************)
(* C11: a snapshot does not disturb the live render state: the buffer the  *)
(* render loop shows never holds the un-mirrored snapshot frame, and the   *)
(* drawing state (stack depth, transform, compositing mode) is what it was *)
(* before the snapshot.                                                    *)
(* Fails under SpecRender: takeScreenshot() draws the un-mirrored frame on *)
(* the canvas of the live view, which holds it until the next render tick. *)
(***************************************************************************)
C11_SnapshotLeavesLiveStateAlone ==
  /\ canvasFrame.orientation # "unmirrored"
  /\ ctxStack = <<>>
  /\ ctxTransform = "identity"
  /\ ctxComposite = "source-over"

(***************************************************************************)
(* C19: overlay side effects never leak across frames: every handler, a    *)
(* render tick in particular, starts with the transform un-mirrored and    *)
(* the compositing mode normal, and a render tick composites the source    *)
(* frame mirrored once and in normal mode, whichever effect ran before and *)
(* whether or not its glitch stages fired.                                 *)
(***************************************************************************)
C19_NoLeakAcrossFrames ==
  [][/\ ctxTransform = "identity"
     /\ ctxComposite = "source-over"
     /\ (RenderTick /\ videoReady) =>
          /\ canvasFrame'.orientation = "mirrored"
          /\ canvasFrame'.composite = "source-over"]_vars

\* a render tick has drawn the shadow overlay with both glitch stages
C19_Witness ==
  /\ lastTick = "drawn"
  /\ canvasFrame = Frame("mirrored", "shadow", "source-over", TRUE, TRUE)

(***************************************************************************)
(* C20: once the render loop has been started, exactly one next tick is    *)
(* pending after every tick and after every other handler, whether or not  *)
(* the source is ready; a tick that finds the source not ready leaves the  *)
(* buffer and the drawing state unchanged.                                 *)
(***************************************************************************)
C20_OneTickPending ==
  [][/\ rafPending = 1
     /\ rafPending' = 1
     /\ (RenderTick /\ ~videoReady) => UNCHANGED <<canvasFrame, ctxVars>>]_vars

\* ticks are skipped while the source is not ready and a spin is running
C20_Witness ==
  /\ ~videoReady
  /\ lastTick = "skipped"
  /\ rafPending = 1
  /\ SpinInFlight
  /\ canvasFrame = Blank

(***************************************************************************)
(* C16, as stated: with luma = 0.299R + 0.587G + 0.114B computed exactly,  *)
(* trickster maps (R,G,B,A) to (0,0,0,A) when luma <= 55 and otherwise to  *)
(* (min(255, luma*1.8), 0, 0, A); alpha is unchanged and every channel is  *)
(* in [0,255].                                                             *)
(* Fails under SpecTrickster: the red channel is a byte, so luma*1.8 is    *)
(* rounded when it is stored (luma 56 gives 101, not 100.8).               *)
(***************************************************************************)
C16_TricksterExact ==
  tricksterOut # <<>> =>
    /\ \A i \in 1..4 : tricksterOut[i] \in 0..255
    /\ tricksterOut[4] = pixel[4]
    /\ tricksterOut[2] = 0
    /\ tricksterOut[3] = 0
    /\ IF LumaMilli(pixel) <= 55 * 1000
       THEN tricksterOut[1] = 0
       ELSE 10000 * tricksterOut[1] =
              (IF 18 * LumaMilli(pixel) > 255 * 10000 THEN 255 * 10000
               ELSE 18 * LumaMilli(pixel))

(***************************************************************************)
(* C16, amended: as above, but the red channel is min(255, luma*1.8)       *)
(* rounded to a nearest integer (it differs from it by at most 1/2).       *)
(***************************************************************************)
C16_TricksterRounded ==
  tricksterOut # <<>> =>
    /\ \A i \in 1..4 : tricksterOut[i] \in 0..255
    /\ tricksterOut[4] = pixel[4]
    /\ tricksterOut[2] = 0
    /\ tricksterOut[3] = 0
    /\ IF LumaMilli(pixel) <= 55 * 1000
       THEN tricksterOut[1] = 0
       ELSE LET exact == IF 18 * LumaMilli(pixel) > 255 * 10000 THEN 255 * 10000
                         ELSE 18 * LumaMilli(pixel)
            IN /\ 10000 * tricksterOut[1] - exact <= 5000
               /\ exact - 10000 * tricksterOut[1] <= 5000

\* a grey of luma exactly 55 has been crushed to black, alpha kept
C16_Witness ==
  /\ pixel = <<55, 55, 55, 128>>
  /\ tricksterOut = <<0, 0, 0, 128>>

(***************************************************************************)
(* C17, as stated: anima outputs, for every pixel off the 1-pixel border,  *)
(* opaque white when |4*center - left - right - top - bottom| > 20 on the  *)
(* luma grid and (20,20,20,255) otherwise; on a uniform bitmap every such  *)
(* pixel is (20,20,20,255); a single brighter pixel on a uniform interior  *)
(* makes the pixels surrounding it white.                                  *)
(* Fails under SpecAnima: the kernel runs on luma rounded to bytes, a      *)
(* pixel brighter by 20 or less whitens no neighbour, and the diagonal     *)
(* neighbours are never whitened.                                          *)
(***************************************************************************)
C17_AnimaAsStated ==
  animaOut # <<>> =>
    /\ \A i \in Idx : Interior(i) =>
          animaOut.data[i] =
            IF Abs(4 * LumaMilli(image[i]) - LumaMilli(image[i - 1])
                   - LumaMilli(image[i + 1]) - LumaMilli(image[i - ImageWidth])
                   - LumaMilli(image[i + ImageWidth])) > 20 * 1000
            THEN <<255, 255, 255, 255>> ELSE <<20, 20, 20, 255>>
    /\ (\A i \in Idx : image[i] = image[0]) =>
          \A i \in Idx : Interior(i) => animaOut.data[i] = <<20, 20, 20, 255>>
    /\ \A c \in Idx :
          (/\ Interior(c)
           /\ UniformBut(c, image[0])
           /\ LumaMilli(image[c]) > LumaMilli(image[0]))
          => \A n \in Adjacent(c) \cup Diagonal(c) :
               Interior(n) => animaOut.data[n] = <<255, 255, 255, 255>>

(***************************************************************************)
(* C17, amended: the grid is luma rounded to a nearest integer; for every  *)
(* pixel off the border the output is opaque white when                    *)
(* |4*center - left - right - top - bottom| > 20 on that grid and          *)
(* (20,20,20,255) otherwise; on a uniform bitmap every such pixel is       *)
(* (20,20,20,255); a single pixel whose rounded luma exceeds that of a     *)
(* uniform rest by more than 20 makes its left, right, top and bottom      *)
(* neighbours white and leaves its diagonal neighbours (20,20,20,255).     *)
(***************************************************************************)
C17_AnimaOnRoundedLuma ==
  animaOut # <<>> =>
    LET g == animaOut.gray
    IN /\ \A i \in Idx :
            /\ g[i] \in 0..255
            /\ 1000 * g[i] - LumaMilli(image[i]) <= 500
            /\ LumaMilli(image[i]) - 1000 * g[i] <= 500
       /\ \A i \in Idx : Interior(i) =>
            animaOut.data[i] =
              IF Abs(4 * g[i] - g[i - 1] - g[i + 1]
                     - g[i - ImageWidth] - g[i + ImageWidth]) > 20
              THEN <<255, 255, 255, 255>> ELSE <<20, 20, 20, 255>>
       /\ (\A i \in Idx : image[i] = image[0]) =>
            \A i \in Idx : Interior(i) => animaOut.data[i] = <<20, 20, 20, 255>>
       /\ \A c \in Idx :
            (/\ Interior(c)
             /\ UniformBut(c, image[0])
             /\ g[c] - g[0] > 20)
            => /\ \A n \in Adjacent(c) :
                    Interior(n) => animaOut.data[n] = <<255, 255, 255, 255>>
               /\ \A n \in Diagonal(c) :
                    Interior(n) => animaOut.data[n] = <<20, 20, 20, 255>>

\* one bright pixel on black: its right neighbour, off the border, is white
C17_Witness ==
  /\ animaOut # <<>>
  /\ \E c \in Idx :
       /\ Interior(c)
       /\ Interior(c + 1)
       /\ UniformBut(c, <<0, 0, 0, 255>>)
       /\ image[c] = <<255, 255, 255, 0>>
       /\ animaOut.data[c + 1] = <<255, 255, 255, 255>>

(***************************************************************************)
(* C21: at most one spin is in flight: in no reachable state are two spin  *)
(* interval timers active together.                                        *)
(* Fails under SpecSelector: stopRecording(), run by a rejected            *)
(* startRecording(), re-enables the random button during a spin (see C6),  *)
(* and the next click starts a second interval.                            *)
(***************************************************************************)
C21_AtMostOneSpin == Cardinality(ActiveSpins) <= 1

(***************************************************************************)
(* C22: whenever no spin is in flight, the effect shown (the class of the  *)
(* canvas and the active button) is the current one.                       *)
(***************************************************************************)
C22_ShownIsCurrent ==
  ~SpinInFlight =>
    /\ canvasClassName = currentFilter
    /\ activeButton = currentFilter

\* no spin is running, 'anima' is current and shown, and a snapshot of that
\* effect has been taken
C22_Witness ==
  /\ ~SpinInFlight
  /\ currentFilter = "anima"
  /\ canvasClassName = "anima"
  /\ activeButton = "anima"
  /\ canvasFrame.orientation = "unmirrored"
  /\ canvasFrame.effect = "anima"
  /\ randomBtnDisabled = FALSE

====
